---- MODULE Spec2Model ----
(***************************************************************************)
(* SpiralPy solver framework (spiralpy/spsolver.py, mdrconvsolver.py):      *)
(* construction of a Solver (library lookup, metadata search, build in a    *)
(* temporary directory, load), the operator trace recorder, the script      *)
(* emitter and the invocation of the generated function.                    *)
(*                                                                          *)
(* Text is modelled by TLA+ strings, a file by the sequence of its lines.   *)
(***************************************************************************)
EXTENDS Integers, Sequences, FiniteSets, TLC

(***************************************************************************)
(* Bounds of the model.                                                     *)
(***************************************************************************)
MaxDim == 2
MaxPad == 1
MaxOps == 2
MaxClock == 1
MaxCalls == 1

(***************************************************************************)
(* Program constants (spiralpy/constants.py, used by name in the sources).  *)
(***************************************************************************)
SP_CPU == "CPU"
SP_CUDA == "CUDA"
SP_HIP == "HIP"
SP_SHLIB_EXT == ".so"
SP_KEY_EXEC == "exec"
SP_KEY_INIT == "init"
SP_KEY_DESTROY == "destroy"
SP_FORWARD == "SP_FORWARD"
SP_INVERSE == "SP_INVERSE"
SPIRAL_RET_OK == "SPIRAL_RET_OK"
SPIRAL_RET_ERROR == "SPIRAL_RET_ERROR"
None == "None"

Platforms == {SP_CPU, SP_CUDA, SP_HIP}
\* MdrconvSolver, and a user subclass of SPSolver that supplies its own runDef
Classes == {"MdrconvSolver", "UserSolver"}

(***************************************************************************)
(* Text helpers.                                                            *)
(***************************************************************************)
str(n) == ToString(n)

EndsWith(s, suffix) ==
    /\ Len(s) >= Len(suffix)
    /\ SubSeq(s, Len(s) - Len(suffix) + 1, Len(s)) = suffix

StartsWith(s, prefix) ==
    /\ Len(s) >= Len(prefix)
    /\ SubSeq(s, 1, Len(prefix)) = prefix

\* list.append(st)
InsertTail(list, st) == Append(list, st)

\* list.insert(0, st)
InsertHead(list, st) == <<st>> \o list

RECURSIVE Reverse(_)
Reverse(s) == IF s = <<>> THEN <<>> ELSE Append(Reverse(Tail(s)), Head(s))

\* 'x'.join([str(n) for n in dims])
RECURSIVE JoinX(_)
JoinX(ds) ==
    IF Len(ds) = 0 THEN ""
    ELSE IF Len(ds) = 1 THEN str(ds[1])
    ELSE str(ds[1]) \o "x" \o JoinX(Tail(ds))

(***************************************************************************)
(* Arrays: only the shape, the memory domain and an identity of the data    *)
(* matter to the code modelled here.                                        *)
(***************************************************************************)
\* the problem shapes explored: the cubes, and boxes with three different sides
Shapes == {<<n, n, n>> : n \in 1..MaxDim} \cup {<<n, n + 1, n + 2>> : n \in 1..MaxDim}

Size(shape) == shape[1] * shape[2] * shape[3]

\* shape of xp.fft.rfftn(x) for a real x of this shape
HalfShape(shape) == <<shape[1], shape[2], (shape[3] \div 2) + 1>>

\* '[' + str(n1) + ',' + str(n2) + ',' + str(n3) + ']'
Box(n1, n2, n3) == "[" \o str(n1) \o "," \o str(n2) \o "," \o str(n3) \o "]"

\* '[{}..{}]'.format(lo, hi)
Range(lo, hi) == "[" \o str(lo) \o ".." \o str(hi) \o "]"

(***************************************************************************)
(* The rendered entries of the five symbolic operators.                     *)
(***************************************************************************)
\* paddings xp.pad accepts for a 3-D array: one pair for all axes, or one per axis
Paddings == {<< <<b, b>> >> : b \in 0..MaxPad}
              \cup {<< <<b, 0>>, <<0, b>>, <<b, b>> >> : b \in 1..MaxPad}

\* t1 = padding[0]; t2 = padding[1] if len(padding) > 1 else t1; t3 likewise
PadAxis(padding, i) ==
    LET t1 == padding[1]
        t2 == IF Len(padding) > 1 THEN padding[2] ELSE t1
        t3 == IF Len(padding) > 2 THEN padding[3] ELSE t2
    IN  IF i = 1 THEN t1 ELSE IF i = 2 THEN t2 ELSE t3

\* shape of xp.pad(src, padding)
PaddedShape(shape, padding) ==
    [i \in 1..3 |-> PadAxis(padding, i)[1] + shape[i] + PadAxis(padding, i)[2]]

\* the ranges are rendered with the exclusive upper end t + n
ZeroEmbedBoxEntryExclusive(shape, padding) ==
    LET t1 == PadAxis(padding, 1)
        t2 == PadAxis(padding, 2)
        t3 == PadAxis(padding, 3)
        nnn == Box(t1[1] + shape[1] + t1[2], t2[1] + shape[2] + t2[2],
                   t3[1] + shape[3] + t3[2])
        nsr3D == "[" \o Range(t1[1], t1[1] + shape[1]) \o ","
                     \o Range(t2[1], t2[1] + shape[2]) \o ","
                     \o Range(t3[1], t3[1] + shape[3]) \o "]"
    IN  "ZeroEmbedBox(" \o nnn \o ", " \o nsr3D \o ")"

ZeroEmbedBoxEntry(shape, padding) ==
    LET t1 == PadAxis(padding, 1)
        t2 == PadAxis(padding, 2)
        t3 == PadAxis(padding, 3)
        N1 == t1[1] + shape[1] + t1[2]
        N2 == t2[1] + shape[2] + t2[2]
        N3 == t3[1] + shape[3] + t3[2]
        nnn == Box(N1, N2, N3)
        nsr3D == "[" \o Range(t1[1], t1[1] + shape[1] - 1) \o ","
                     \o Range(t2[1], t2[1] + shape[2] - 1) \o ","
                     \o Range(t3[1], t3[1] + shape[3] - 1) \o "]"
    IN  "ZeroEmbedBox(" \o nnn \o ", " \o nsr3D \o ")"

RfftnEntry(shape) == "MDPRDFT(" \o Box(shape[1], shape[2], shape[3]) \o ", -1)"

PointwiseEntry(shape) == "RCDiag(FDataOfs(symvar, " \o str(Size(shape) * 2) \o ", 0))"

IrfftnEntry(shape) == "IMDPRDFT(" \o Box(shape[1], shape[2], shape[3]) \o ", 1)"

ExtractEntry(N, Nd) ==
    LET ndrange == "[" \o str(N - Nd) \o ".." \o str(N - 1) \o "]"
    IN  "ExtractBox(" \o Box(N, N, N) \o ", "
            \o "[" \o ndrange \o "," \o ndrange \o "," \o ndrange \o "]" \o ")"

(***************************************************************************)
(* Names derived at construction.                                           *)
(***************************************************************************)
\* MdrconvSolver.__init__: typ + 'Mdrconv_' + ns; SPSolver.__init__: default 'func'
ClassNamebase(c, ds, realctype) ==
    IF c = "MdrconvSolver"
    THEN (IF realctype = "float" THEN "f" ELSE "d") \o "Mdrconv_" \o JoinX(ds)
    ELSE "func"

\* SPSolver.__init__: the platform suffix of the base name
Namebase(c, ds, o) ==
    IF o.platform = SP_CUDA THEN ClassNamebase(c, ds, o.realctype) \o "_cu"
    ELSE IF o.platform = SP_HIP THEN ClassNamebase(c, ds, o.realctype) \o "_hip"
    ELSE ClassNamebase(c, ds, o.realctype)

genCuda(o) == o.platform = SP_CUDA
genHIP(o) == o.platform = SP_HIP

DefaultNames(nb) ==
    [exec |-> nb, init |-> "init_" \o nb, destroy |-> "destroy_" \o nb]

(***************************************************************************)
(* The script emitter.                                                      *)
(***************************************************************************)
Indent == "            "

\* the loop stops one entry short
ComposeLinesSkipLast(cg) == [i \in 1..(Len(cg) - 1) |-> Indent \o cg[i]]

\* for i in range(len(self._callGraph)): print("            " + self._callGraph[i])
ComposeLines(cg) == [i \in 1..Len(cg) |-> Indent \o cg[i]]

ConfLine(o) ==
    IF genCuda(o) THEN "conf := LocalConfig.fftx.confGPU();"
    ELSE IF genHIP(o) THEN "conf := FFTXGlobals.defaultHIPConf();"
    ELSE "conf := LocalConfig.fftx.defaultConf();"

FileType(o) ==
    LET t1 == IF genCuda(o) THEN ".cu" ELSE ".c"
    IN  IF genHIP(o) THEN ".cpp" ELSE t1

OptsLines(o) ==
    (IF genCuda(o) \/ genHIP(o) THEN <<"opts.wrapCFuncs := true;">> ELSE <<>>)
    \o (IF o.realctype = "float" THEN <<"opts.TRealCtype := \"float\";">> ELSE <<>>)
    \o (IF o.printRuleTree THEN <<"opts.printRuleTree := true;">> ELSE <<>>)

ComposeOpen == "        Compose(["
ComposeClose == "        ]),"

writeScript(cg, nameroot, o) ==
    << "Load(fftx);",
       "ImportAll(fftx);",
       "",
       ConfLine(o),
       "",
       "t := let(symvar := var(\"sym\", TPtr(TReal)),",
       "    TFCall(",
       ComposeOpen >>
    \o ComposeLines(cg)
    \o << ComposeClose,
          "        rec(fname := \"" \o nameroot \o "\", params := [symvar])",
          "    )",
          ");",
          "",
          "opts := conf.getOpts(t);" >>
    \o OptsLines(o)
    \o << "tt := opts.tagIt(t);",
          "",
          "c := opts.fftxGen(tt);",
          "PrintTo(\"" \o nameroot \o FileType(o) \o "\", opts.prettyPrint(c));",
          "" >>

\* datetime.datetime.now().strftime("%a %b %d %H:%M:%S %Y") for the instant t,
\* counted in seconds from an instant within one minute
TimeStr(t) == "Thu Jan 01 00:00:" \o (IF t < 10 THEN "0" ELSE "") \o str(t) \o " 1970"

\* the time of generation also on the line that names the class
HeaderLinesTimeTwice(c, t) ==
    << "", "# SPIRAL script generated by " \o c \o " " \o TimeStr(t), "# " \o TimeStr(t), "" >>

HeaderLines(c, t) ==
    << "", "# SPIRAL script generated by " \o c, "# " \o TimeStr(t), "" >>

\* the text _genScript writes: the header, then _writeScript
genScriptText(c, t, cg, nameroot, o) == HeaderLines(c, t) \o writeScript(cg, nameroot, o)

\* the operator lines of a script: those between Compose([ and ]),
RECURSIVE IndexOf(_, _, _)
IndexOf(lines, l, i) ==
    IF i > Len(lines) THEN 0
    ELSE IF lines[i] = l THEN i
    ELSE IndexOf(lines, l, i + 1)

OperatorLines(lines) ==
    LET a == IndexOf(lines, ComposeOpen, 1)
        b == IndexOf(lines, ComposeClose, 1)
    IN  SubSeq(lines, a + 1, b - 1)

(***************************************************************************)
(* State.                                                                   *)
(***************************************************************************)
VARIABLES
    cls,                \* the class of the Solver under construction
    problem,            \* [dims, k]
    opts,               \* [platform, keeptemp, metadata, realctype, printRuleTree]
    workdir,            \* os.getenv(SP_WORKDIR), or None
    names,              \* _mainFuncName, _initFuncName, _destroyFuncName
    sharedLibFullPath,  \* the library __init__ decided to load
    lookup,             \* what __init__ found: os.path.exists, and the search result
    SharedLibAccess,    \* path of the loaded library, or None
    MainFunc,           \* the resolved main entry point, or None
    metadata,           \* self._metadata: the transform entries built so far
    tracingOn,
    callGraph,
    refRun,             \* the operator calls runDef makes, in call order
    revealed,           \* whether refRun is the whole of runDef
    run,                \* the reference run in progress, or the last one
    pc,                 \* position of the Python thread
    stack,              \* positions to return to
    filename,           \* argument of the active _genScript call
    frame,              \* locals of _setupCFuncs
    error,              \* message of the exception that escaped, or None
    log,                \* steps executed during construction, in order
    cwd,                \* working directory of the process
    dirs,               \* directories that exist
    files,              \* files that exist
    libs,               \* artifacts in the install directory
    clock,              \* wall-clock time, in seconds
    script,             \* the last script text written, with its inputs
    prevScript,         \* the one written before it
    emitted,            \* the text of the last direct call of _writeScript
    call,               \* outcome of the last _func invocation
    solved,             \* the solve call that made it, if one did
    teardown            \* outcome of __del__

config == <<cls, problem, opts, workdir>>
solver == <<names, sharedLibFullPath, lookup, SharedLibAccess, MainFunc, metadata>>
tracer == <<tracingOn, callGraph, refRun, revealed, run>>
control == <<pc, stack, filename, frame, error, log>>
world == <<cwd, dirs, files, libs>>
scripts == <<clock, script, prevScript, emitted>>
outcomes == <<call, solved, teardown>>

vars == <<config, solver, tracer, control, world, scripts, outcomes>>

includeMetadata == opts.metadata
namebase == Namebase(cls, problem.dims, opts)

(***************************************************************************)
(* The operator trace recorder.                                             *)
(***************************************************************************)
OpCall(op, arg) == [op |-> op, arg |-> arg]

\* MdrconvSolver.runDef: rfftn, pointwise, irfftn
MdrconvRun == << OpCall("rfftn", <<>>), OpCall("pointwise", <<>>), OpCall("irfftn", <<>>) >>

\* pos: the operator calls made so far; calls: their entries, in call order;
\* nth: 1 for the first reference run of this Solver, 2 for every later one;
\* traced: the run was started by _trace
NoRun == [src |-> <<>>, cur |-> <<>>, real |-> <<>>, pos |-> 0, calls |-> <<>>,
          seed |-> None, nth |-> 0, traced |-> FALSE]

\* the random contents xp.random.rand may give the test input
Seeds == {"rand1", "rand2"}

\* buildTestInput: a random cube of the problem's shape
buildTestInput(seed) ==
    [src |-> problem.dims, cur |-> problem.dims, real |-> problem.dims,
     pos |-> 0, calls |-> <<>>, seed |-> seed, nth |-> IF run.nth = 0 THEN 1 ELSE 2,
     traced |-> FALSE]

\* _trace up to the call of runDef
TraceBegin ==
    \E seed \in Seeds :
        /\ tracingOn' = TRUE
        /\ callGraph' = <<>>
        /\ run' = [buildTestInput(seed) EXCEPT !.traced = TRUE]

\* the separator appended to every entry, the last included
AddSeparatorsAll(cg) == [i \in 1..Len(cg) |-> cg[i] \o ","]

\* for i in range(len(self._callGraph)-1): self._callGraph[i] += ','
AddSeparators(cg) ==
    [i \in 1..Len(cg) |-> IF i <= Len(cg) - 1 THEN cg[i] \o "," ELSE cg[i]]

\* the reference run calls d next
NextOp(d) ==
    IF run.pos < Len(refRun)
    THEN d = refRun[run.pos + 1]
    ELSE ~revealed /\ Len(refRun) < MaxOps

\* the entry is recorded whether tracing is on or not
RecordAlways(st) == InsertHead(callGraph, st)

\* what every operator does with its rendered entry st
Record(st) == IF tracingOn THEN InsertHead(callGraph, st) ELSE callGraph

Operator(d, st, cur, real) ==
    /\ pc = "runDef"
    /\ NextOp(d)
    /\ callGraph' = Record(st)
    /\ run' = [run EXCEPT !.cur = cur, !.real = real, !.pos = @ + 1,
                          !.calls = Append(@, st)]
    /\ refRun' = IF run.pos < Len(refRun) THEN refRun ELSE Append(refRun, d)
    /\ UNCHANGED <<tracingOn, revealed, config, solver, control, world, scripts, outcomes>>

zeroEmbedBox ==
    \E padding \in Paddings :
        Operator(OpCall("zeroEmbedBox", padding),
                 ZeroEmbedBoxEntry(run.cur, padding),
                 PaddedShape(run.cur, padding), PaddedShape(run.cur, padding))

rfftn ==
    Operator(OpCall("rfftn", <<>>), RfftnEntry(run.cur), HalfShape(run.cur), run.cur)

pointwise ==
    Operator(OpCall("pointwise", <<>>), PointwiseEntry(run.cur), run.cur, run.real)

irfftn ==
    Operator(OpCall("irfftn", <<>>), IrfftnEntry(run.real), run.real, run.real)

\* length of x[N-Nd:N] along an axis of length n
SliceLen(n, N, Nd) ==
    LET hi == IF N < n THEN N ELSE n
    IN  IF hi - (N - Nd) > 0 THEN hi - (N - Nd) ELSE 0

extract ==
    /\ pc = "runDef"
    /\ run.cur[1] >= 1
    /\ \E Nd \in {run.cur[1] - 1, run.cur[1]} \cap (1..run.cur[1]) :
        LET N == run.cur[1]
            out == [i \in 1..3 |-> SliceLen(run.cur[i], N, Nd)]
        IN  Operator(OpCall("extract", <<N, Nd>>), ExtractEntry(N, Nd), out, out)

\* _trace after runDef has returned
TraceEnd ==
    /\ pc = "runDef"
    /\ run.traced
    /\ run.pos = Len(refRun)
    /\ tracingOn' = FALSE
    /\ callGraph' = AddSeparators(callGraph)
    /\ revealed' = TRUE
    /\ pc' = Head(stack)
    /\ stack' = Tail(stack)
    /\ UNCHANGED <<refRun, run, filename, frame, error, log>>
    /\ UNCHANGED <<config, solver, world, scripts, outcomes>>

\* a call of _trace on the constructed Solver
UserTrace ==
    /\ pc = "ready"
    /\ TraceBegin
    /\ pc' = "runDef"
    /\ stack' = <<"ready">>
    /\ UNCHANGED <<refRun, revealed, filename, frame, error, log>>
    /\ UNCHANGED <<config, solver, world, scripts, outcomes>>

\* a call of runDef on the constructed Solver, with an input of the problem's shape
UserRunDef ==
    /\ pc = "ready"
    /\ run' = buildTestInput("given")
    /\ pc' = "runDef"
    /\ stack' = <<"ready">>
    /\ UNCHANGED <<tracingOn, callGraph, refRun, revealed, filename, frame, error, log>>
    /\ UNCHANGED <<config, solver, world, scripts, outcomes>>

\* that call of runDef returns
RunDefReturn ==
    /\ pc = "runDef"
    /\ ~run.traced
    /\ run.pos = Len(refRun)
    /\ revealed' = TRUE
    /\ pc' = Head(stack)
    /\ stack' = Tail(stack)
    /\ UNCHANGED <<tracingOn, callGraph, refRun, run, filename, frame, error, log>>
    /\ UNCHANGED <<config, solver, world, scripts, outcomes>>

(***************************************************************************)
(* _genScript.                                                              *)
(***************************************************************************)
Join(dir, name) == dir \o "/" \o name

\* a call of _genScript on the constructed Solver
UserGenScript ==
    /\ pc = "ready"
    /\ pc' = "genScript"
    /\ stack' = <<"ready">>
    /\ filename' = namebase \o ".g"
    /\ UNCHANGED <<frame, error, log, config, solver, tracer, world, scripts, outcomes>>

\* self._trace()
GenScriptTrace ==
    /\ pc = "genScript"
    /\ TraceBegin
    /\ pc' = "runDef"
    /\ stack' = <<"genScript.open">> \o stack
    /\ log' = IF Head(stack) = "callSpiral" THEN Append(log, "trace") ELSE log
    /\ UNCHANGED <<refRun, revealed, filename, frame, error>>
    /\ UNCHANGED <<config, solver, world, scripts, outcomes>>

\* open(filename, 'w') fails: the message is printed and _genScript returns
GenScriptOpenFails ==
    /\ pc = "genScript.open"
    /\ pc' = Head(stack)
    /\ stack' = Tail(stack)
    /\ UNCHANGED <<filename, frame, error, log>>
    /\ UNCHANGED <<config, solver, tracer, world, scripts, outcomes>>

\* the header and _writeScript, written to the file
GenScriptWrite ==
    /\ pc = "genScript.open"
    /\ \E t \in clock..MaxClock :
        /\ clock' = t
        /\ script' = [text |-> genScriptText(cls, t, callGraph, namebase, opts),
                      time |-> t, callGraph |-> callGraph, seed |-> run.seed]
    /\ prevScript' = script
    /\ files' = files \cup {Join(cwd, filename)}
    /\ pc' = Head(stack)
    /\ stack' = Tail(stack)
    /\ log' = IF Head(stack) = "callSpiral" THEN Append(log, "writeScript") ELSE log
    /\ UNCHANGED <<emitted, filename, frame, error, cwd, dirs, libs>>
    /\ UNCHANGED <<config, solver, tracer, outcomes>>

\* a call of _writeScript on the constructed Solver, with a file opened in cwd
UserWriteScript ==
    /\ pc = "ready"
    /\ emitted' = [text |-> writeScript(callGraph, namebase, opts), callGraph |-> callGraph]
    /\ files' = files \cup {Join(cwd, namebase \o ".g")}
    /\ UNCHANGED <<clock, script, prevScript, cwd, dirs, libs>>
    /\ UNCHANGED <<config, solver, tracer, control, outcomes>>

(***************************************************************************)
(* Installed artifacts and their metadata.                                  *)
(***************************************************************************)
LibsDir == "/libs"
LibPath(nb) == LibsDir \o "/lib" \o nb \o SP_SHLIB_EXT

\* a Python dict as the set of its items; a value that is no dict has type NoneType
Dict(items) == [type |-> "dict", items |-> items]
NoDict == [type |-> "NoneType", items |-> {}]
DictLen(d) == Cardinality(d.items)
DictHas(d, k) == \E kv \in d.items : kv[1] = k
\* d.get(k, default)
DictGet(d, k, default) ==
    IF DictHas(d, k) THEN (CHOOSE kv \in d.items : kv[1] = k)[2] ELSE default

\* the fields _metadataForSearch fills in, _setFunctionMetadata included
metadataForSearch(c, pr, o) ==
    [direction |-> IF pr.k = SP_INVERSE THEN "inverse" ELSE "forward",
     precision |-> IF o.realctype = "float" THEN "single" ELSE "double",
     transformtype |-> IF c = "MdrconvSolver" THEN "MDRCONV" ELSE "UNKNOWN",
     dimensions |-> pr.dims,
     platform |-> o.platform]

\* the precision written is single, whatever the configuration says
buildMetadataSingle(c, pr, o, nm, nb) ==
    [entry |-> [metadataForSearch(c, pr, o) EXCEPT !.precision = "single"],
     names |-> Dict({<<SP_KEY_EXEC, nm.exec>>, <<SP_KEY_INIT, nm.init>>,
                     <<SP_KEY_DESTROY, "destroy_" \o nb>>})]

\* the transform entry and the names _buildMetadata fills in
buildMetadata(c, pr, o, nm, nb) ==
    [entry |-> [direction |-> IF pr.k = SP_INVERSE THEN "inverse" ELSE "forward",
                precision |-> IF o.realctype = "float" THEN "single" ELSE "double",
                transformtype |-> IF c = "MdrconvSolver" THEN "MDRCONV" ELSE "UNKNOWN",
                dimensions |-> pr.dims,
                platform |-> o.platform],
     names |-> Dict({<<SP_KEY_EXEC, nm.exec>>, <<SP_KEY_INIT, nm.init>>,
                     <<SP_KEY_DESTROY, "destroy_" \o nb>>})]

NoMeta == [present |-> FALSE, entry |-> <<>>, names |-> NoDict]
Meta(entry, nms) == [present |-> TRUE, entry |-> entry, names |-> nms]
Artifact(path, exports, meta) == [path |-> path, exports |-> exports, meta |-> meta]

\* findFunctionsWithMetadata: an installed artifact whose transform entry equals
\* the query in every field, with its names; (None, None) when there is none
SearchResults(installed, searchmd) ==
    LET hits == {a \in installed : a.meta.present /\ a.meta.entry = searchmd}
    IN  IF hits = {} THEN {[path |-> None, names |-> NoDict]}  \* (None, None)
        ELSE {[path |-> a.path, names |-> a.meta.names] : a \in hits}

\* (type(path) is str) and (type(names) is dict) and (len(names) > 2)
Usable(hit) ==
    /\ hit.path # None
    /\ hit.names.type = "dict"
    /\ DictLen(hit.names) > 2

(***************************************************************************)
(* SPSolver.__init__ up to the decision to build.                           *)
(***************************************************************************)
NoHit == [path |-> None, names |-> NoDict]
NoLookup == [exists |-> FALSE, searched |-> FALSE, hit |-> NoHit]

\* whether a library is installed at path
Installed(path) == \E a \in libs : a.path = path

\* a lookup that never sees the library built for this very transform
PathExistsNever(path) == FALSE

\* os.path.exists(path) for a library path
PathExists(path) == Installed(path)

Construct ==
    /\ pc = "new"
    /\ LET specific == LibPath(namebase)
           default == DefaultNames(namebase)
       IN  IF PathExists(specific)
           THEN /\ sharedLibFullPath' = specific
                /\ names' = default
                /\ pc' = "load"
                /\ log' = log
                /\ lookup' = [exists |-> Installed(specific), searched |-> FALSE, hit |-> NoHit]
           ELSE \E hit \in SearchResults(libs, metadataForSearch(cls, problem, opts)) :
                    /\ log' = Append(log, "search")
                    /\ lookup' = [exists |-> Installed(specific), searched |-> TRUE, hit |-> hit]
                    /\ IF Usable(hit)
                       THEN /\ sharedLibFullPath' = hit.path
                            /\ names' = [exec |-> DictGet(hit.names, SP_KEY_EXEC, default.exec),
                                         init |-> DictGet(hit.names, SP_KEY_INIT, default.init),
                                         destroy |-> DictGet(hit.names, SP_KEY_DESTROY, default.destroy)]
                            /\ pc' = "load"
                       ELSE /\ sharedLibFullPath' = specific
                            /\ names' = default
                            /\ pc' = "setup"
    /\ UNCHANGED <<SharedLibAccess, MainFunc, metadata, stack, filename, frame, error>>
    /\ UNCHANGED <<config, tracer, world, scripts, outcomes>>

(***************************************************************************)
(* _setupCFuncs.                                                            *)
(***************************************************************************)
TempSuffixes == {"k3x9", "q7w2"}

\* os.chdir(dir) inside try/except: the directory is changed when dir exists
ChdirOrStay(from, dir) == IF dir \in dirs THEN dir ELSE from

\* lines 227-238: the work directory, the temporary directory, the script name
SetupCFuncsEnter ==
    /\ pc = "setup"
    /\ LET basename == namebase
           here == IF workdir # None THEN ChdirOrStay(cwd, workdir) ELSE cwd
       IN  \E sfx \in TempSuffixes :
               LET tempdir == Join(here, basename \o "_" \o sfx)
               IN  /\ tempdir \notin dirs
                   /\ frame' = [entered |-> cwd, cwd |-> here, tempdir |-> tempdir,
                                basename |-> basename, spiral |-> None, cmake |-> None]
                   /\ dirs' = dirs \cup {tempdir}
                   /\ cwd' = tempdir
                   /\ filename' = basename \o ".g"
    /\ pc' = "genScript"
    /\ stack' = <<"callSpiral">>
    /\ UNCHANGED <<error, log, files, libs>>
    /\ UNCHANGED <<config, solver, tracer, scripts, outcomes>>

\* callSpiralWithFile: the generator succeeds only on a script it can read
SpiralResults(scriptPath) ==
    IF scriptPath \in files THEN {SPIRAL_RET_OK, SPIRAL_RET_ERROR} ELSE {SPIRAL_RET_ERROR}

\* the generator's failure is not raised: the build goes on
SpiralErrorFallsThrough ==
    /\ cwd' = frame.cwd
    /\ UNCHANGED error
    /\ pc' = "callCMake"

\* lines 244-248: back to the saved directory, and the error is raised
SpiralErrorExit ==
    /\ cwd' = frame.cwd
    /\ error' = "SPIRAL error"
    /\ pc' = "raised"

\* lines 240-248: the generator, and the exit on its failure
CallSpiral ==
    /\ pc = "callSpiral"
    /\ log' = Append(log, "callSpiral")
    /\ \E ret \in SpiralResults(Join(cwd, filename)) :
        /\ frame' = [frame EXCEPT !.spiral = ret]
        /\ IF ret = SPIRAL_RET_OK
           THEN /\ files' = files \cup {Join(cwd, frame.basename \o FileType(opts))}
                /\ pc' = IF includeMetadata THEN "createMetadataFile" ELSE "callCMake"
                /\ UNCHANGED <<cwd, error>>
           ELSE /\ SpiralErrorExit
                /\ UNCHANGED files
    /\ UNCHANGED <<stack, filename, dirs, libs>>
    /\ UNCHANGED <<config, solver, tracer, scripts, outcomes>>

SP_METAFILE_EXT == "_meta.h"

\* the metadata file is not written
CreateMetadataFileSkipped ==
    /\ pc = "createMetadataFile"
    /\ pc' = "callCMake"
    /\ UNCHANGED <<stack, filename, frame, error, log>>
    /\ UNCHANGED <<config, solver, tracer, world, scripts, outcomes>>

\* _createMetadataFile
CreateMetadataFile ==
    /\ pc = "createMetadataFile"
    /\ metadata' = buildMetadata(cls, problem, opts, names, namebase)
    /\ files' = files \cup {Join(cwd, frame.basename \o SP_METAFILE_EXT)}
    /\ log' = Append(log, "createMetadataFile")
    /\ pc' = "callCMake"
    /\ UNCHANGED <<names, sharedLibFullPath, lookup, SharedLibAccess, MainFunc>>
    /\ UNCHANGED <<stack, filename, frame, error, cwd, dirs, libs>>
    /\ UNCHANGED <<config, tracer, scripts, outcomes>>

\* the entry points a library built for nb may export
ExportSets(nb) ==
    LET all == {nb, "init_" \o nb, "destroy_" \o nb}
    IN  {all, all \ {"destroy_" \o nb}, all \ {"init_" \o nb}, all \ {nb}}

\* shutil.rmtree(tempdir, ignore_errors=True)
InDir(path, dir) == StartsWith(path, dir \o "/")
Rmtree(set, dir) == {p \in set : p # dir /\ ~InDir(p, dir)}

\* lines 259-261: the temporary directory is removed unless it is to be kept
Cleanup(set) == IF ~opts.keeptemp THEN Rmtree(set, frame.tempdir) ELSE set

\* lines 250-263: the native build, the return to the saved directory, the cleanup
CallCMake ==
    /\ pc = "callCMake"
    /\ log' = Append(log, "callCMake")
    /\ cwd' = frame.cwd
    /\ \E ret \in {0, 1} :
        /\ frame' = [frame EXCEPT !.cmake = str(ret)]
        /\ IF ret # 0
           THEN /\ error' = "CMake error"
                /\ pc' = "raised"
                /\ UNCHANGED <<dirs, files, libs>>
           ELSE /\ \E ex \in ExportSets(frame.basename) :
                     libs' = libs \cup
                         {Artifact(LibPath(frame.basename), ex,
                                   IF includeMetadata
                                   THEN Meta(metadata.entry, metadata.names)
                                   ELSE NoMeta)}
                /\ dirs' = Cleanup(dirs)
                /\ files' = Cleanup(files)
                /\ pc' = "load"
                /\ UNCHANGED error
    /\ UNCHANGED <<stack, filename>>
    /\ UNCHANGED <<config, solver, tracer, scripts, outcomes>>

(***************************************************************************)
(* Loading the library and resolving its entry points.                      *)
(***************************************************************************)
Exports(path) == UNION {a.exports : a \in {b \in libs : b.path = path}}

\* lines 100-104: ctypes.CDLL, then getattr of the main function
LoadLibrary ==
    /\ pc = "load"
    /\ log' = Append(log, "CDLL")
    /\ SharedLibAccess' = sharedLibFullPath
    /\ IF names.exec \in Exports(sharedLibFullPath)
       THEN /\ MainFunc' = names.exec
            /\ pc' = "initFunc"
            /\ UNCHANGED error
       ELSE /\ error' = "AttributeError"
            /\ pc' = "raised"
            /\ UNCHANGED MainFunc
    /\ UNCHANGED <<names, sharedLibFullPath, lookup, metadata, stack, filename, frame>>
    /\ UNCHANGED <<config, tracer, world, scripts, outcomes>>

\* the init entry point is neither looked up nor called
InitFuncSkipped ==
    /\ pc = "initFunc"
    /\ pc' = "ready"
    /\ UNCHANGED <<stack, filename, frame, error, log>>
    /\ UNCHANGED <<config, solver, tracer, world, scripts, outcomes>>

\* _initFunc
InitFunc ==
    /\ pc = "initFunc"
    /\ IF names.init \in Exports(SharedLibAccess)
       THEN /\ log' = Append(log, "init")
            /\ pc' = "ready"
            /\ UNCHANGED error
       ELSE /\ error' = "could not find function: " \o names.init
            /\ pc' = "raised"
            /\ UNCHANGED log
    /\ UNCHANGED <<stack, filename, frame>>
    /\ UNCHANGED <<config, solver, tracer, world, scripts, outcomes>>

(***************************************************************************)
(* _func: the invocation of the main entry point.                           *)
(***************************************************************************)
Domains == {"host", "device"}

\* sp.get_array_module(src)
get_array_module(src) == IF src.domain = "device" THEN "cp" ELSE "np"

\* Reading the pointers of the buffers bufs, in this order, through the
\* attribute attr: x.ctypes exists on host arrays only, x.data.ptr on device
\* arrays only. The buffers read before the first AttributeError, and whether
\* all were read.
RECURSIVE ReadPointers(_, _)
ReadPointers(bufs, domain) ==
    IF bufs = <<>> THEN [reads |-> <<>>, ok |-> TRUE]
    ELSE IF Head(bufs).domain # domain THEN [reads |-> <<>>, ok |-> FALSE]
    ELSE LET rest == ReadPointers(Tail(bufs), domain)
         IN  [reads |-> <<Head(bufs).name>> \o rest.reads, ok |-> rest.ok]

NoCall == [error |-> None, reads |-> <<>>, mainCalled |-> FALSE, domains |-> <<>>]

\* dst=None: no array is passed
NoArray == [name |-> None, domain |-> None, shape |-> <<>>, data |-> <<>>]

NoSolve == [call |-> NoCall, given |-> None, symIn |-> <<>>, symArg |-> <<>>,
            before |-> <<>>, wrote |-> <<>>, dst |-> NoArray, returned |-> None,
            raised |-> None]

\* how often step was executed
Count(seq, step) == Cardinality({i \in 1..Len(seq) : seq[i] = step})

Buffer(name, domain) == [name |-> name, domain |-> domain]

\* the order in which _func evaluates the pointer arguments
HostArgs(c, dst, src, sym) ==
    IF c = "MdrconvSolver" THEN <<dst, src, sym>> ELSE <<dst, src>>
DeviceArgs(c, dst, src, sym) ==
    IF c = "MdrconvSolver" THEN <<dst, src, sym>> ELSE <<src, dst>>

\* the platform is not compared with the array module of src
funcAnyPlatform(c, o, dst, src, sym) ==
    LET host == get_array_module(src) = "np"
        r == IF host THEN ReadPointers(HostArgs(c, dst, src, sym), "host")
             ELSE ReadPointers(DeviceArgs(c, dst, src, sym), "device")
    IN  [error |-> IF r.ok THEN None ELSE "AttributeError", reads |-> r.reads,
         mainCalled |-> r.ok, domains |-> <<dst.domain, src.domain, sym.domain>>]

func(c, o, dst, src, sym) ==
    LET xp == get_array_module(src)
        doms == <<dst.domain, src.domain, sym.domain>>
    IN  IF xp = "np"
        THEN IF genCuda(o) \/ genHIP(o)
             THEN [error |-> "GPU function requires CuPy arrays", reads |-> <<>>,
                   mainCalled |-> FALSE, domains |-> doms]
             ELSE LET r == ReadPointers(HostArgs(c, dst, src, sym), "host")
                  IN  [error |-> IF r.ok THEN None ELSE "AttributeError",
                       reads |-> r.reads, mainCalled |-> r.ok, domains |-> doms]
        ELSE IF ~genCuda(o) /\ ~genHIP(o)
             THEN [error |-> "CPU function requires NumPy arrays", reads |-> <<>>,
                   mainCalled |-> FALSE, domains |-> doms]
             ELSE LET r == ReadPointers(DeviceArgs(c, dst, src, sym), "device")
                  IN  [error |-> IF r.ok THEN None ELSE "AttributeError",
                       reads |-> r.reads, mainCalled |-> r.ok, domains |-> doms]

\* a call of _func on the constructed Solver
Func ==
    /\ pc = "ready"
    /\ Count(log, "main") < MaxCalls
    /\ \E d \in Domains, s \in Domains, y \in Domains :
        LET r == func(cls, opts, Buffer("dst", d), Buffer("src", s),
                      Buffer("sym", IF cls = "MdrconvSolver" THEN y ELSE s))
        IN  /\ call' = r
            /\ log' = IF r.mainCalled THEN Append(log, "main") ELSE log
    /\ solved' = NoSolve
    /\ UNCHANGED <<pc, stack, filename, frame, error, teardown>>
    /\ UNCHANGED <<config, solver, tracer, world, scripts>>

(***************************************************************************)
(* MdrconvSolver.solve.                                                     *)
(***************************************************************************)
\* an array: its name for the caller, its memory domain, shape and elements
NDArray(name, domain, shape, data) ==
    [name |-> name, domain |-> domain, shape |-> shape, data |-> data]

\* the elements are fractions <<numerator, denominator>>, so a division is exact
Fill(shape, v) == [i \in 1..Size(shape) |-> <<v, 1>>]

\* xp.zeros((n1,n2,n3), src.dtype), in the array module of src
Zeros(xp, shape) ==
    NDArray("zeros", IF xp = "np" THEN "host" ELSE "device", shape, Fill(shape, 0))

\* the normalization is applied a second time
DivideTwice(data, n) == [i \in DOMAIN data |-> <<data[i][1], data[i][2] * n * n>>]

\* xp.divide(dst, n, out=dst)
Divide(data, n) == [i \in DOMAIN data |-> <<data[i][1], data[i][2] * n>>]

\* lines 87-91: sym[:, :, :Nx] when shape[0] == shape[2]
SliceSym(shape) ==
    IF shape[1] = shape[3]
    THEN LET N == shape[1]
             Nx == (N \div 2) + 1
         IN  <<shape[1], shape[2], IF Nx < shape[3] THEN Nx ELSE shape[3]>>
    ELSE shape

\* what the generated function leaves in dst: element i holds w * i
MainResults == {1, 3}
MainWrites(w, shape) == [i \in 1..Size(shape) |-> <<w * i, 1>>]

\* a buffer the caller passes as dst, with what an earlier use left in it
CallerDst(domain, shape) == NDArray("dst", domain, shape, Fill(shape, 7))

solve(o, dims, src, sym, dst, w) ==
    LET xp == get_array_module(src)
        symArg == [sym EXCEPT !.shape = SliceSym(sym.shape)]
        n == dims[1] * dims[2] * dims[3]
        d == IF dst = NoArray THEN Zeros(xp, dims) ELSE dst
        r == func("MdrconvSolver", o, d, src, symArg)
        wrote == MainWrites(w, dims)
    IN  [call |-> r, given |-> dst.name,
         symIn |-> sym.shape, symArg |-> symArg.shape, before |-> d.data,
         wrote |-> IF r.mainCalled THEN wrote ELSE <<>>,
         dst |-> IF r.mainCalled THEN [d EXCEPT !.data = Divide(wrote, n)] ELSE d,
         returned |-> IF r.mainCalled THEN d.name ELSE None,
         raised |-> r.error]

\* a call of solve on the constructed Solver
Solve ==
    /\ pc = "ready"
    /\ cls = "MdrconvSolver"
    /\ Count(log, "main") < MaxCalls
    /\ \E s \in Domains, y \in Domains, g \in {None} \cup Domains, w \in MainResults,
          sh \in {problem.dims, HalfShape(problem.dims)} :
        LET dst == IF g = None THEN NoArray ELSE CallerDst(g, problem.dims)
            r == solve(opts, problem.dims, NDArray("src", s, problem.dims, <<>>),
                       NDArray("sym", y, sh, <<>>), dst, w)
        IN  /\ solved' = r
            /\ call' = r.call
            /\ log' = IF r.call.mainCalled THEN Append(log, "main") ELSE log
    /\ UNCHANGED <<pc, stack, filename, frame, error, teardown>>
    /\ UNCHANGED <<config, solver, tracer, world, scripts>>

(***************************************************************************)
(* Teardown.                                                                *)
(***************************************************************************)
\* a call of the destroy entry point returns, or fails
DestroyResults == {None, "OSError"}

\* the destroy entry point is never found
destroyFuncMissing(lib, name, res) ==
    [called |-> FALSE, error |-> "could not find function: " \o name]

\* _destroyFunc, when a call of the entry point would end as res
destroyFunc(lib, name, res) ==
    IF lib # None /\ name \in Exports(lib)
    THEN [called |-> TRUE, error |-> res]
    ELSE [called |-> FALSE, error |-> "could not find function: " \o name]

NoTeardown == [done |-> FALSE, destroyed |-> FALSE, swallowed |-> None, raised |-> None]

\* the error of _destroyFunc leaves __del__
DelPropagates(r) ==
    [done |-> TRUE, destroyed |-> r.called, swallowed |-> None, raised |-> r.error]

\* try: self._destroyFunc() except: pass
DelSwallows(r) ==
    [done |-> TRUE, destroyed |-> r.called, swallowed |-> r.error, raised |-> None]

\* __del__: of a constructed Solver, or of the object whose __init__ raised
Del ==
    /\ pc \in {"ready", "raised"}
    /\ \E res \in DestroyResults :
        LET r == destroyFunc(SharedLibAccess, names.destroy, res)
        IN  /\ teardown' = DelSwallows(r)
            /\ log' = IF r.called THEN Append(log, "destroy") ELSE log
    /\ pc' = "deleted"
    /\ UNCHANGED <<stack, filename, frame, error, call, solved>>
    /\ UNCHANGED <<config, solver, tracer, world, scripts>>

(***************************************************************************)
(* Initial states.                                                          *)
(***************************************************************************)
Home == "/home"
Work == "/work"
Missing == "/missing"

Options ==
    [platform : Platforms, keeptemp : BOOLEAN, metadata : BOOLEAN,
     realctype : {"double", "float"}, printRuleTree : BOOLEAN]

\* MdrconvSolver.__init__ sets opts[SP_OPT_METADATA] = True
ClassOptions(c) == IF c = "MdrconvSolver" THEN {o \in Options : o.metadata} ELSE Options

NoScript == [text |-> <<>>, time |-> 0, callGraph |-> <<>>, seed |-> None]
NoEmit == [text |-> <<>>, callGraph |-> <<>>]
\* entered: the working directory at the call; spiral, cmake: the values of ret
NoFrame == [entered |-> None, cwd |-> None, tempdir |-> None, basename |-> None,
            spiral |-> None, cmake |-> None]
NoMetadata == [entry |-> <<>>, names |-> NoDict]

\* an artifact installed under another base name
Other == "other"
OtherNames ==
    { Dict({<<SP_KEY_EXEC, Other>>, <<SP_KEY_INIT, "init_" \o Other>>,
            <<SP_KEY_DESTROY, "destroy_" \o Other>>}),
      Dict({<<SP_KEY_EXEC, Other>>, <<SP_KEY_INIT, "init_" \o Other>>}),
      Dict({<<SP_KEY_INIT, "init_" \o Other>>, <<SP_KEY_DESTROY, "destroy_" \o Other>>,
            <<"build", "1">>}),
      NoDict }

OtherArtifacts(c, pr, o) ==
    LET q == metadataForSearch(c, pr, o)
        ex == {Other, "init_" \o Other, "destroy_" \o Other}
    IN  {Artifact(LibPath(Other), ex, Meta(q, nm)) : nm \in OtherNames}
        \cup {Artifact(LibPath(Other), ex,
                       Meta([q EXCEPT !.dimensions = <<q.dimensions[1] + 1,
                                                       q.dimensions[2], q.dimensions[3]>>],
                            CHOOSE nm \in OtherNames : DictLen(nm) = 3 /\ DictHas(nm, SP_KEY_EXEC)))}

\* what the install directory may hold before construction
InstalledSets(c, pr, o) ==
    LET nb == Namebase(c, pr.dims, o)
    IN  {{}}
        \cup {{Artifact(LibPath(nb), ex, NoMeta)} : ex \in ExportSets(nb)}
        \cup {{a} : a \in OtherArtifacts(c, pr, o)}

\* the fields __init__ sets before it looks for a library, and the process around it
InitFields ==
    /\ names = DefaultNames(namebase)
    /\ metadata = NoMetadata
    /\ tracingOn = FALSE
    /\ callGraph = <<>>
    /\ run = NoRun
    /\ stack = <<>>
    /\ filename = None
    /\ frame = NoFrame
    /\ error = None
    /\ cwd = Home
    /\ dirs = {Home, Work, LibsDir}
    /\ files = {}
    /\ clock = 0
    /\ script = NoScript
    /\ prevScript = NoScript
    /\ emitted = NoEmit
    /\ call = NoCall
    /\ solved = NoSolve
    /\ teardown = NoTeardown

\* the reference runs of the user subclass that construction is explored with
UserRuns(dims) ==
    { <<>>,
      << OpCall("zeroEmbedBox", << <<1, 1>> >>), OpCall("rfftn", <<>>),
         OpCall("pointwise", <<>>), OpCall("irfftn", <<>>),
         OpCall("extract", <<dims[1] + 2, dims[1] + 1>>) >> }

\* construction of a Solver
Init ==
    /\ cls \in Classes
    /\ problem \in {[dims |-> <<MaxDim, MaxDim, MaxDim>>, k |-> SP_FORWARD]}
    /\ opts \in {o \in ClassOptions(cls) : o.realctype = "double" /\ ~o.printRuleTree}
    /\ InitFields
    /\ workdir \in {None, Work, Missing}
    /\ libs \in InstalledSets(cls, problem, opts)
    /\ refRun \in (IF cls = "MdrconvSolver" THEN {MdrconvRun} ELSE UserRuns(problem.dims))
    /\ revealed = TRUE
    /\ sharedLibFullPath = None
    /\ lookup = NoLookup
    /\ SharedLibAccess = None
    /\ MainFunc = None
    /\ pc = "new"
    /\ log = <<>>

Next ==
    \/ Construct
    \/ SetupCFuncsEnter
    \/ GenScriptTrace
    \/ zeroEmbedBox \/ rfftn \/ pointwise \/ irfftn \/ extract
    \/ TraceEnd
    \/ GenScriptOpenFails
    \/ GenScriptWrite
    \/ CallSpiral
    \/ CreateMetadataFile
    \/ CallCMake
    \/ LoadLibrary
    \/ InitFunc
    \/ Func
    \/ Del

Spec == Init /\ [][Next]_vars

(***************************************************************************)
(* A constructed Solver, whose library was found installed.                 *)
(***************************************************************************)
Constructed ==
    /\ InitFields
    /\ workdir = None
    /\ libs = {Artifact(LibPath(namebase), {namebase, "init_" \o namebase,
                                             "destroy_" \o namebase}, NoMeta)}
    /\ sharedLibFullPath = LibPath(namebase)
    /\ lookup = [exists |-> TRUE, searched |-> FALSE, hit |-> NoHit]
    /\ SharedLibAccess = LibPath(namebase)
    /\ MainFunc = namebase
    /\ pc = "ready"
    /\ log = <<"CDLL", "init">>

(***************************************************************************)
(* Tracing and script emission on a constructed Solver, for every reference *)
(* run of at most MaxOps operator calls.                                    *)
(***************************************************************************)
\* a reference run: embed, forward transform, pointwise, inverse transform
Pipeline ==
    << OpCall("zeroEmbedBox", << <<1, 1>> >>), OpCall("rfftn", <<>>),
       OpCall("pointwise", <<>>), OpCall("irfftn", <<>>) >>

InitTrace ==
    /\ cls \in Classes
    /\ problem \in {[dims |-> d, k |-> SP_FORWARD] : d \in Shapes}
    /\ opts \in {o \in ClassOptions(cls) :
                    o.metadata /\ ~o.keeptemp /\ (o.printRuleTree <=> o.realctype = "float")}
    /\ Constructed
    /\ refRun \in (IF cls = "MdrconvSolver" THEN {MdrconvRun} ELSE {<<>>, Pipeline})
    /\ revealed = (refRun # <<>>)

NextTrace ==
    \/ UserTrace
    \/ UserRunDef
    \/ RunDefReturn
    \/ zeroEmbedBox \/ rfftn \/ pointwise \/ irfftn \/ extract
    \/ TraceEnd
    \/ UserWriteScript

SpecTrace == InitTrace /\ [][NextTrace]_vars

(***************************************************************************)
(* Repeated script generation on a constructed Solver.                      *)
(***************************************************************************)
InitScript ==
    /\ cls \in Classes
    /\ problem \in {[dims |-> d, k |-> SP_FORWARD] : d \in Shapes}
    /\ opts \in {o \in ClassOptions(cls) : o.metadata /\ ~o.keeptemp}
    /\ Constructed
    /\ refRun \in (IF cls = "MdrconvSolver" THEN {MdrconvRun} ELSE UserRuns(problem.dims))
    /\ revealed = TRUE

NextScript ==
    \/ UserGenScript
    \/ GenScriptTrace
    \/ zeroEmbedBox \/ rfftn \/ pointwise \/ irfftn \/ extract
    \/ TraceEnd
    \/ GenScriptOpenFails
    \/ GenScriptWrite

SpecScript == InitScript /\ [][NextScript]_vars

(***************************************************************************)
(* solve and teardown on a constructed MdrconvSolver, for every problem     *)
(* shape of ProblemShapes.                                                  *)
(***************************************************************************)
\* MdrconvProblem(ns): boxes of reals, cubes or not
ProblemShapes ==
    {<<n1, n2, n3>> : n1 \in 1..(MaxDim + 1), n2 \in 1..MaxDim, n3 \in 1..(2 * MaxDim)}

InitSolve ==
    /\ cls = "MdrconvSolver"
    /\ problem \in {[dims |-> d, k |-> SP_FORWARD] : d \in ProblemShapes}
    /\ opts \in {o \in ClassOptions(cls) :
                    ~o.keeptemp /\ o.realctype = "double" /\ ~o.printRuleTree}
    /\ Constructed
    /\ refRun = MdrconvRun
    /\ revealed = TRUE

NextSolve ==
    \/ Solve
    \/ Del

SpecSolve == InitSolve /\ [][NextSolve]_vars

(***************************************************************************)
(* Construction with nothing installed, for every problem and every         *)
(* configuration of direction, precision, platform and metadata inclusion.  *)
(***************************************************************************)
\* MdrconvProblem passes no direction to SPProblem.__init__: k = SP_FORWARD
Directions(c) == IF c = "MdrconvSolver" THEN {SP_FORWARD} ELSE {SP_FORWARD, SP_INVERSE}

InitMeta ==
    /\ cls \in Classes
    /\ problem \in {[dims |-> d, k |-> k] : d \in Shapes, k \in Directions(cls)}
    /\ opts \in {o \in ClassOptions(cls) : ~o.keeptemp /\ ~o.printRuleTree}
    /\ InitFields
    /\ workdir = None
    /\ libs = {}
    /\ refRun \in (IF cls = "MdrconvSolver" THEN {MdrconvRun} ELSE UserRuns(problem.dims))
    /\ revealed = TRUE
    /\ sharedLibFullPath = None
    /\ lookup = NoLookup
    /\ SharedLibAccess = None
    /\ MainFunc = None
    /\ pc = "new"
    /\ log = <<>>

SpecMeta == InitMeta /\ [][Next]_vars

(***************************************************************************)
(* Properties of the build (specification Spec).                            *)
(***************************************************************************)
InLog(step) == \E i \in 1..Len(log) : log[i] = step

BuildSteps == {"trace", "writeScript", "callSpiral", "createMetadataFile", "callCMake"}

\* _setupCFuncs was entered
BuildRan == frame.entered # None \/ \E i \in 1..Len(log) : log[i] \in BuildSteps

\* _setupCFuncs has returned or raised
BuildEnded ==
    frame.entered # None /\ pc \in {"load", "initFunc", "ready", "raised", "deleted"}

\* C1: on every exit path of a build (success, generator failure, native build
\* failure, with or without a configured work directory) the working directory
\* of the process after _setupCFuncs equals the one it had before the call.
C1_WorkingDirectoryRestored == BuildEnded => cwd = frame.entered

\* C2: when the generator step returns a result other than success, the native
\* build step is never invoked in that build and the build ends by raising the
\* generator error out of construction.
C2_GeneratorFailureStopsBuild ==
    (frame.spiral \notin {None, SPIRAL_RET_OK}) =>
        /\ ~InLog("callCMake")
        /\ frame.cmake = None
        /\ pc \in {"raised", "deleted"}
        /\ error = "SPIRAL error"
        /\ SharedLibAccess = None

C2_Witness ==
    /\ frame.spiral = SPIRAL_RET_ERROR
    /\ pc = "raised"
    /\ InLog("callSpiral")

\* C3: without the keep-temporary-files flag the temporary directory no longer
\* exists once the build has ended, on every path; with the flag it is kept on
\* every path.
C3_TempDirRemovedUnlessKept ==
    BuildEnded => (frame.tempdir \in dirs <=> opts.keeptemp)

\* C4: the build runs only if the library lib<namebase> is absent from the
\* install directory and the metadata search reports no usable match; if the
\* specific library exists neither the search nor the build runs; if the search
\* finds a usable match the build does not run and the matched artifact is the
\* one loaded.
C4_BuildOnlyWithoutLibrary ==
    /\ BuildRan => (~lookup.exists /\ InLog("search") /\ ~Usable(lookup.hit))
    /\ lookup.exists =>
          (~InLog("search") /\ ~BuildRan /\ pc # "setup"
             /\ sharedLibFullPath = LibPath(namebase))
    /\ (InLog("search") /\ Usable(lookup.hit)) =>
          (~BuildRan /\ pc # "setup"
             /\ sharedLibFullPath = lookup.hit.path
             /\ SharedLibAccess \in {None, lookup.hit.path})

C4_Witness ==
    /\ InLog("search")
    /\ Usable(lookup.hit)
    /\ SharedLibAccess = lookup.hit.path
    /\ pc = "ready"

\* the search hit was adopted: its library and its names are used, nothing is built
Adopted ==
    /\ sharedLibFullPath = lookup.hit.path
    /\ ~BuildRan
    /\ pc # "setup"

\* C5: a metadata search hit is adopted if and only if its exported-names
\* sub-record contains at least the exec and the init symbol names.
C5_AdoptedIffExecAndInit ==
    (lookup.searched /\ lookup.hit.path # None) =>
        (Adopted <=> (DictHas(lookup.hit.names, SP_KEY_EXEC)
                        /\ DictHas(lookup.hit.names, SP_KEY_INIT)))

(***************************************************************************)
(* Properties of the trace recorder and the emitter (SpecTrace).            *)
(***************************************************************************)
\* _trace has returned at least once and no reference run is in progress
TraceDone == ~tracingOn /\ run.nth > 0 /\ run.traced /\ pc # "runDef"

\* C6: after every call of _trace, repeated calls included, a reference run of
\* k operator calls leaves exactly k entries; every entry but the last ends
\* with the separator ',' and the last does not; for k = 0 the list is empty.
C6_SeparatorOnAllButLast ==
    TraceDone =>
        /\ Len(callGraph) = run.pos
        /\ \A i \in 1..Len(callGraph) :
              EndsWith(callGraph[i], ",") <=> (i < run.pos)

C6_Witness == TraceDone /\ run.nth = 2 /\ run.pos >= 2

\* C7: every operator call made while tracing puts its entry at the head of the
\* list, so the finalized sequence is the reverse of the call order; for
\* MdrconvSolver.runDef it is IMDPRDFT, RCDiag, MDPRDFT.
C7_ReverseOfCallOrder ==
    /\ tracingOn => callGraph = Reverse(run.calls)
    /\ TraceDone =>
          /\ Len(callGraph) = Len(run.calls)
          /\ \A i \in 1..Len(callGraph) :
                callGraph[i] = run.calls[Len(run.calls) + 1 - i]
                                  \o (IF i < Len(callGraph) THEN "," ELSE "")
    /\ (TraceDone /\ cls = "MdrconvSolver") =>
          /\ Len(callGraph) = 3
          /\ StartsWith(callGraph[1], "IMDPRDFT(")
          /\ StartsWith(callGraph[2], "RCDiag(")
          /\ StartsWith(callGraph[3], "MDPRDFT(")

C7_Witness == TraceDone /\ cls = "MdrconvSolver" /\ Len(callGraph) = 3

\* C8: the operator lines _writeScript emits inside Compose([...]) are the
\* entries of the finalized trace sequence, same order, same count, nothing
\* added, dropped or reordered.
C8_EmittedOperatorLines ==
    (emitted # NoEmit) =>
        LET ls == OperatorLines(emitted.text)
        IN  /\ Len(ls) = Len(emitted.callGraph)
            /\ \A i \in 1..Len(ls) : ls[i] = Indent \o emitted.callGraph[i]

C8_Witness ==
    /\ emitted # NoEmit
    /\ Len(emitted.callGraph) >= 2
    /\ emitted.callGraph = callGraph

(***************************************************************************)
(* Properties of repeated script generation (SpecScript).                   *)
(***************************************************************************)
\* two scripts were generated by this Solver from the same trace sequence
TwoScripts ==
    /\ script # NoScript
    /\ prevScript # NoScript
    /\ script.callGraph = prevScript.callGraph

\* C9, as stated: two generations for the same trace sequence and the same
\* configuration give byte-identical text, whatever the time of either.
C9_ByteIdenticalScripts == TwoScripts => script.text = prevScript.text

\* C9, amended: the two texts have the same lines except for the line of the
\* header that carries the time of generation, whatever random test input the
\* traces used; they are byte-identical when both read the same second.
C9_IdenticalButTimestamp ==
    TwoScripts =>
        /\ Len(script.text) = Len(prevScript.text)
        /\ \A i \in 1..Len(script.text) :
              (i # 3) => script.text[i] = prevScript.text[i]
        /\ (script.time = prevScript.time) => script.text = prevScript.text

C9_Witness ==
    /\ TwoScripts
    /\ script.seed # prevScript.seed
    /\ script.time # prevScript.time
    /\ Len(script.callGraph) >= 2

(***************************************************************************)
(* Properties of the invocation (Spec).                                     *)
(***************************************************************************)
\* the buffers of the last invocation were not all in one memory domain
Mixed(c) == c.domains # <<>> /\ \E i, j \in 1..Len(c.domains) : c.domains[i] # c.domains[j]

\* the errors _func raises on purpose
DomainErrors == {"GPU function requires CuPy arrays", "CPU function requires NumPy arrays"}

\* C10: invoking _func with buffers of mixed memory domains raises a
\* domain-mismatch error before the main entry point is called and before any
\* buffer pointer is read, for every platform.
C10_MixedDomainsRejected ==
    Mixed(call) =>
        /\ call.error \in DomainErrors
        /\ ~call.mainCalled
        /\ call.reads = <<>>

\* the platform's memory domain
PlatformDomain == IF genCuda(opts) \/ genHIP(opts) THEN "device" ELSE "host"

\* all buffers of the invocation c are in the memory domain d
AllIn(c, d) == c.domains # <<>> /\ \A i \in 1..Len(c.domains) : c.domains[i] = d

\* C11: the main entry point is called only when the domain of the buffers
\* matches the configured platform: a call with device buffers on the CPU
\* platform raises an error, a call with host buffers on CUDA or HIP raises an
\* error, and in both cases the main entry point is not called.
C11_MainOnlyOnMatchingDomain ==
    /\ call.mainCalled => AllIn(call, PlatformDomain)
    /\ (AllIn(call, "device") /\ PlatformDomain = "host") =>
          (call.error = "CPU function requires NumPy arrays" /\ ~call.mainCalled)
    /\ (AllIn(call, "host") /\ PlatformDomain = "device") =>
          (call.error = "GPU function requires CuPy arrays" /\ ~call.mainCalled)

C11_Witness ==
    /\ AllIn(call, "host")
    /\ opts.platform = SP_HIP
    /\ call.error # None
    /\ ~InLog("main")

(***************************************************************************)
(* Properties of solve (SpecSolve).                                         *)
(***************************************************************************)
\* C12: after a successful solve on dimensions (n1, n2, n3) every element of
\* the returned buffer is what the main entry point wrote there divided exactly
\* once by n1*n2*n3; the division is done in place on the destination buffer,
\* which is the caller's dst when one is passed; nothing is divided when the
\* invocation raises.
C12_DividedOnceInPlace ==
    solved # NoSolve =>
        LET n == problem.dims[1] * problem.dims[2] * problem.dims[3]
        IN  /\ solved.raised = None =>
                  /\ solved.call.mainCalled
                  /\ solved.returned = solved.dst.name
                  /\ solved.given # None => solved.returned = solved.given
                  /\ DOMAIN solved.dst.data = 1..Size(problem.dims)
                  /\ \A i \in DOMAIN solved.dst.data :
                        solved.dst.data[i] = <<solved.wrote[i][1], solved.wrote[i][2] * n>>
            /\ solved.raised # None =>
                  /\ solved.dst.data = solved.before
                  /\ solved.returned = None

C12_Witness ==
    /\ solved.raised = None
    /\ solved.given = "dst"
    /\ solved.returned = "dst"
    /\ Size(problem.dims) > 1

(***************************************************************************)
(* Properties of the Solver's lifetime (Spec).                              *)
(***************************************************************************)
\* C13: __del__ never raises, whatever state the Solver is in: constructed,
\* construction failed before the library was loaded, library loaded but a
\* symbol missing, destroy symbol absent, or the destroy entry point failing.
C13_TeardownNeverRaises ==
    /\ teardown.raised = None
    /\ pc = "deleted" <=> teardown.done

C13_Witness ==
    /\ teardown.done
    /\ teardown.destroyed
    /\ teardown.swallowed = "OSError"

\* the library that was loaded exports the name
Exported(name) == SharedLibAccess # None /\ name \in Exports(SharedLibAccess)

\* construction returned a Solver
Returned == pc = "ready" \/ (pc = "deleted" /\ error = None)

\* C14: if the loaded library lacks the init or the main entry point,
\* construction raises and no Solver is returned; on every successful
\* construction both symbols were resolved and the init entry point was invoked
\* exactly once, before any invocation of the main entry point.
C14_RequiredSymbolsOrRaise ==
    /\ (SharedLibAccess # None /\ ~(Exported(names.exec) /\ Exported(names.init))) =>
          /\ ~Returned
          /\ ~InLog("main")
          /\ pc \in {"raised", "deleted"} => error # None
    /\ Returned =>
          /\ MainFunc = names.exec
          /\ Exported(names.exec) /\ Exported(names.init)
          /\ Count(log, "init") = 1
    /\ \A i \in 1..Len(log) : log[i] = "main" => \E j \in 1..(i - 1) : log[j] = "init"

C14_Witness ==
    /\ pc = "raised"
    /\ Exported(names.exec)
    /\ ~Exported(names.init)
    /\ error = "could not find function: " \o names.init

\* C15: for each Solver the library is loaded exactly once and the destroy
\* entry point is invoked exactly once, at teardown and at no other time, over
\* any sequence of construction, solve calls and teardown.
C15_LoadedAndDestroyedOnce ==
    /\ Returned => Count(log, "CDLL") = 1
    /\ pc # "deleted" => Count(log, "destroy") = 0
    /\ (pc = "deleted" /\ error = None) => Count(log, "destroy") = 1

\* C15, amended: the library is loaded at most once, and exactly once for a
\* Solver that construction returned; the destroy entry point is invoked only
\* at teardown, exactly once when the loaded library exports the destroy name
\* and never when it does not or when no library was loaded.
C15_DestroyedOnceIfExported ==
    /\ Count(log, "CDLL") <= 1
    /\ Returned => Count(log, "CDLL") = 1
    /\ pc # "deleted" => Count(log, "destroy") = 0
    /\ pc = "deleted" =>
          Count(log, "destroy") = (IF Exported(names.destroy) THEN 1 ELSE 0)
    /\ Count(log, "destroy") = 1 => log[Len(log)] = "destroy"

C15_Witness ==
    /\ pc = "deleted"
    /\ error = None
    /\ InLog("main")
    /\ Count(log, "destroy") = 1

\* C20: when solve is given a symbol array that already has the half-spectrum
\* shape (n1, n2, n3 div 2 + 1), the array passed to the main entry point has
\* that shape; the slicing truncates the last axis only when the symbol is a
\* full cube of shape (n1, n2, n3).
C20_HalfSpectrumSymbolKept ==
    solved # NoSolve =>
        /\ solved.symIn = HalfShape(problem.dims) => solved.symArg = solved.symIn
        /\ solved.symArg # solved.symIn => solved.symIn = problem.dims

(***************************************************************************)
(* Order of the build steps (Spec).                                         *)
(***************************************************************************)
\* step a was executed, and step b before it
After(a, b) == \A i \in 1..Len(log) : log[i] = a => \E j \in 1..(i - 1) : log[j] = b

\* the metadata file of this build was written
MetadataFileWritten ==
    \/ Join(frame.tempdir, frame.basename \o SP_METAFILE_EXT) \in files
    \/ InLog("createMetadataFile")

\* C16: in a build the sibling metadata file is written only after the native
\* build step has succeeded, and only when metadata inclusion is enabled; no
\* metadata file is written in a build whose native build step fails or is
\* never reached.
C16_MetadataFileAfterNativeBuild ==
    (BuildRan /\ MetadataFileWritten) =>
        /\ includeMetadata
        /\ After("createMetadataFile", "callCMake")
        /\ frame.cmake = "0"

\* C16, amended: the metadata file is written after the generator has
\* succeeded and before the native build step is invoked, in every build with
\* metadata inclusion enabled that gets that far and in no other; no metadata
\* file is written in a build whose generator step fails or is never reached.
C16_MetadataFileBeforeNativeBuild ==
    /\ MetadataFileWritten =>
          /\ BuildRan
          /\ includeMetadata
          /\ InLog("createMetadataFile")
          /\ After("createMetadataFile", "callSpiral")
          /\ frame.spiral = SPIRAL_RET_OK
          /\ Count(log, "createMetadataFile") = 1
    /\ After("createMetadataFile", "callSpiral")
    /\ ~After("createMetadataFile", "callCMake") \/ ~InLog("createMetadataFile")
    /\ (includeMetadata /\ InLog("callCMake")) => After("callCMake", "createMetadataFile")

C16_Witness ==
    /\ frame.cmake = "1"
    /\ pc = "raised"
    /\ InLog("createMetadataFile")
    /\ Join(frame.tempdir, frame.basename \o SP_METAFILE_EXT) \in files

\* C17: the build steps run in the order trace, script writing, generator,
\* native build, and an error in a step ends the build with no later step
\* executed; when the script file cannot be opened for writing, the generator
\* and the native build are not invoked.
C17_StepsInOrderStopOnError ==
    /\ After("writeScript", "trace")
    /\ After("callSpiral", "trace")
    /\ After("callCMake", "callSpiral")
    /\ InLog("callCMake") => frame.spiral = SPIRAL_RET_OK
    /\ After("callSpiral", "writeScript")
    /\ After("callCMake", "writeScript")

(***************************************************************************)
(* Properties of the operators (SpecTrace).                                 *)
(***************************************************************************)
\* the padding of axis i, given as one pair for all axes or as one per axis
AxisPad(padding, i) == IF Len(padding) = 1 THEN padding[1] ELSE padding[i]

\* this step is a call of the operator op
OperatorStep(op) ==
    /\ pc = "runDef"
    /\ run'.pos = run.pos + 1
    /\ refRun'[run'.pos].op = op

\* a traced call of zeroEmbedBox on an input of shape n with padding p records
\* the box [b1+n1+a1, b2+n2+a2, b3+n3+a3] and the ranges [bi..bi+ni-1]
EmbedRendered ==
    (tracingOn /\ OperatorStep("zeroEmbedBox")) =>
        LET p == refRun'[run'.pos].arg
            n == run.cur
            b == [i \in 1..3 |-> AxisPad(p, i)[1]]
            a == [i \in 1..3 |-> AxisPad(p, i)[2]]
            N == [i \in 1..3 |-> b[i] + n[i] + a[i]]
            hi == [i \in 1..3 |-> b[i] + n[i] - 1]
        IN  /\ callGraph'[1] = "ZeroEmbedBox(" \o Box(N[1], N[2], N[3]) \o ", ["
                                   \o Range(b[1], hi[1]) \o "," \o Range(b[2], hi[2])
                                   \o "," \o Range(b[3], hi[3]) \o "])"
            /\ Len(callGraph') = Len(callGraph) + 1
            /\ \A i \in 1..3 : hi[i] - b[i] + 1 = n[i] /\ 0 <= b[i] /\ hi[i] <= N[i] - 1

\* the pipeline embed, forward transform, pointwise, inverse transform whose
\* embed output is 4x4x4
PipelineExample ==
    (TraceDone /\ refRun = Pipeline
        /\ PaddedShape(problem.dims, Pipeline[1].arg) = <<4, 4, 4>>) =>
        /\ Len(callGraph) = 4
        /\ StartsWith(callGraph[4], "ZeroEmbedBox([4,4,4], ")

\* C18: for every 3-D input of shape (n1, n2, n3) and padding
\* ((b1,a1),(b2,a2),(b3,a3)) the entry zeroEmbedBox records while tracing renders
\* the output box [b1+n1+a1, b2+n2+a2, b3+n3+a3] and per axis the inclusive
\* range [bi..bi+ni-1], of ni elements inside 0..Ni-1; the pipeline embed,
\* forward transform, pointwise, inverse transform with a 4x4x4 embed output
\* gives 4 entries, the embed box rendered [4,4,4].
C18_ZeroEmbedBoxRendering == []PipelineExample /\ [][EmbedRendered]_vars

C18_Witness ==
    /\ TraceDone
    /\ refRun = Pipeline
    /\ Len(callGraph) = 4
    /\ callGraph[4] = "ZeroEmbedBox([4,4,4], [[1..2],[1..2],[1..2]])"

\* an operator call made while the tracing flag is off
UntracedOperatorStep ==
    /\ ~tracingOn
    /\ \E op \in {"zeroEmbedBox", "rfftn", "pointwise", "irfftn", "extract"} :
          OperatorStep(op)

\* C19: after _trace returns the tracing flag is off, and every operator call
\* made while the flag is off, such as from runDef outside a trace, leaves the
\* trace list unchanged.
C19_NothingRecordedWhenOff ==
    /\ [](pc # "runDef" => ~tracingOn)
    /\ [][UntracedOperatorStep => callGraph' = callGraph]_vars

C19_Witness ==
    /\ ~run.traced
    /\ pc = "runDef"
    /\ run.pos = 2
    /\ Len(callGraph) >= 2
    /\ EndsWith(callGraph[1], ",")

(***************************************************************************)
(* Properties of the metadata (SpecMeta).                                   *)
(***************************************************************************)
\* the artifacts this construction built and installed with metadata
BuiltHere == {a \in libs : a.path = LibPath(namebase) /\ a.meta.present}

\* C21: for every problem and configuration, the transform entry that
\* _buildMetadata writes for a newly built artifact and the query that
\* _metadataForSearch builds for the same problem and configuration agree on
\* direction, precision, transform kind, dimensions and platform, so a later
\* Solver with the same problem and configuration matches the artifact built.
C21_BuiltEntryMatchesQuery ==
    LET q == metadataForSearch(cls, problem, opts)
    IN  /\ metadata # NoMetadata =>
              /\ metadata.entry.direction = q.direction
              /\ metadata.entry.precision = q.precision
              /\ metadata.entry.transformtype = q.transformtype
              /\ metadata.entry.dimensions = q.dimensions
              /\ metadata.entry.platform = q.platform
        /\ \A a \in BuiltHere :
              /\ a.meta.entry = metadata.entry
              /\ \E hit \in SearchResults(libs, q) : hit.path = a.path /\ Usable(hit)

C21_Witness ==
    /\ BuiltHere # {}
    /\ problem.k = SP_INVERSE
    /\ opts.realctype = "double"
    /\ opts.platform = SP_CUDA
    /\ pc = "ready"

(***************************************************************************)
(* Destroy and init (Spec).                                                 *)
(***************************************************************************)
\* C22: the destroy entry point is invoked only for a Solver whose init entry
\* point was invoked and returned before; when construction fails after the
\* library is loaded but before or during init (missing main symbol, missing
\* init symbol), teardown does not invoke the destroy entry point.
C22_DestroyOnlyAfterInit ==
    /\ After("destroy", "init")
    /\ (pc = "deleted" /\ error # None) => ~teardown.destroyed

====
